---- MODULE Spec2Model ----
(***************************************************************************)
(* Model of the Siglent SPD3303C power supply driver                       *)
(* (pymeasure/instruments/siglent/spd3303c.py).                            *)
(*                                                                         *)
(* The driver is a table of property descriptors interpreted by the        *)
(* generic accessors of the Instrument base class, two helper methods      *)
(* (_get_system_status, _decode_channel_status), a constructor and         *)
(* shutdown.  The base class, the validators and the transport are not     *)
(* part of the file; they are modelled from the driver's specification.    *)
(*                                                                         *)
(* Conventions.                                                            *)
(*  - A command string is a sequence of tokens: the string cut at its      *)
(*    conversion specifier, 'OUTPut CH1,%s' being <<"OUTPut CH1,", "%s">>. *)
(*  - A reply string is a sequence of one-character strings.               *)
(*  - Voltages and currents are fixed point, in tenths (32.0 V is 320).    *)
(*  - A Python value given to a status property is the string of its       *)
(*    literal: "True", "False", "1", "0", "2", "'ON'", "None".             *)
(***************************************************************************)
EXTENDS Integers, Sequences, FiniteSets, TLC

VARIABLES
    constructed,  \* a driver instance exists (the constructor returned)
    session,      \* "unbound", "open" or "closed": the instrument session
    wire,         \* every call the transport has carried out, in order
    last,         \* the last driver call: its input, what it sent, its outcome
    calls         \* number of driver calls made so far

vars == <<constructed, session, wire, last, calls>>

----------------------------------------------------------------------------
(* Bounds of the model *)

\* Number of driver calls in one behaviour.
MaxCalls == 3

\* Longest reply string of the instrument that is enumerated.
MaxReplyLen == 5

\* Largest status word given to _decode_channel_status.
MaxStatusWord == 127

----------------------------------------------------------------------------
(* Module-level constants of the driver *)

CONTROLLABLE_CHANNELS == {1, 2}

ALL_CHANNELS == CONTROLLABLE_CHANNELS \cup {3}

\* Mutant: the map hands the Python value through instead of the token.
CHANNEL_STATUS_VALUE_MAP_identity ==
    ("True" :> "True") @@ ("False" :> "False")

CHANNEL_STATUS_VALUE_MAP == ("True" :> "ON") @@ ("False" :> "OFF")

\* [0.0, 32.0] volts, in tenths
CHANNEL_VOLTAGE_RANGE == <<0, 320>>

\* Mutant: the current range copied from the voltage range.
CHANNEL_CURRENT_RANGE_as_voltage == <<0, 320>>

\* [0, 3.2] amperes, in tenths
CHANNEL_CURRENT_RANGE == <<0, 32>>

----------------------------------------------------------------------------
(* Python semantics used by the driver *)

NoError == "none"

\* Key under which a Python value is looked up in a dict: 1 == True and
\* 0 == False, with equal hashes, so they are the same key.
PyKey(v) ==
    CASE v = "1" -> "True"
      [] v = "0" -> "False"
      [] OTHER   -> v

\* Number of conversion specifiers of a template.
RECURSIVE Specifiers(_)
Specifiers(t) ==
    IF t = <<>> THEN 0
    ELSE (IF Head(t) = "%s" THEN 1 ELSE 0) + Specifiers(Tail(t))

\* template % value, for a single (non-tuple) value: TypeError unless the
\* template holds exactly one conversion specifier.
PyFormat(t, s) ==
    IF Specifiers(t) # 1
    THEN [err |-> "TypeError", str |-> <<>>]
    ELSE [err |-> NoError,
          str |-> [i \in 1..Len(t) |-> IF t[i] = "%s" THEN s ELSE t[i]]]

\* Characters of str.strip() met in replies.
Whitespace == {" "}

RECURSIVE LStrip(_)
LStrip(s) ==
    IF s # <<>> /\ Head(s) \in Whitespace THEN LStrip(Tail(s)) ELSE s

RECURSIVE RStrip(_)
RStrip(s) ==
    IF s # <<>> /\ s[Len(s)] \in Whitespace
    THEN RStrip(SubSeq(s, 1, Len(s) - 1))
    ELSE s

Strip(s) == RStrip(LStrip(s))

UpperHexDigits ==
    <<"0", "1", "2", "3", "4", "5", "6", "7", "8", "9",
      "A", "B", "C", "D", "E", "F">>

LowerHexDigits ==
    <<"0", "1", "2", "3", "4", "5", "6", "7", "8", "9",
      "a", "b", "c", "d", "e", "f">>

IsDigit(c, base) ==
    \E i \in 1..base : UpperHexDigits[i] = c \/ LowerHexDigits[i] = c

DigitValue(c) ==
    (CHOOSE i \in 1..16 : UpperHexDigits[i] = c \/ LowerHexDigits[i] = c) - 1

\* Value of a non-empty string of digits of the base, most significant first.
RECURSIVE DigitsValue(_, _)
DigitsValue(s, base) ==
    IF s = <<>> THEN 0
    ELSE DigitsValue(SubSeq(s, 1, Len(s) - 1), base) * base
         + DigitValue(s[Len(s)])

AllDigits(s, base) ==
    s # <<>> /\ \A i \in 1..Len(s) : IsDigit(s[i], base)

Signed(s) == s # <<>> /\ Head(s) \in {"-", "+"}

Unsigned(s) == IF Signed(s) THEN Tail(s) ELSE s

Negate(s, n) == IF Signed(s) /\ Head(s) = "-" THEN 0 - n ELSE n

HasHexPrefix(s) ==
    Len(s) >= 2 /\ s[1] = "0" /\ s[2] \in {"x", "X"}

\* int(s, 16): surrounding whitespace, a sign and a 0x prefix are accepted,
\* then at least one hexadecimal digit and nothing else; ValueError
\* otherwise.  (Digit-grouping underscores are outside the reply alphabet.)
PyInt16(s) ==
    LET t == Strip(s)
        u == Unsigned(t)
        d == IF HasHexPrefix(u) THEN SubSeq(u, 3, Len(u)) ELSE u
    IN  IF AllDigits(d, 16)
        THEN [err |-> NoError, n |-> Negate(t, DigitsValue(d, 16))]
        ELSE [err |-> "ValueError", n |-> 0]

\* float(s) for the replies of the model (no fraction, no exponent):
\* surrounding whitespace and a sign, then decimal digits; ValueError
\* otherwise.  The value is in tenths.
PyFloat(s) ==
    LET t == Strip(s)
        d == Unsigned(t)
    IN  IF AllDigits(d, 10)
        THEN [err |-> NoError, n |-> Negate(t, DigitsValue(d, 10) * 10)]
        ELSE [err |-> "ValueError", n |-> 0]

\* Index of the first occurrence of "0x" in s, 0 when there is none.
Find0x(s) ==
    LET hits == {i \in 1..(Len(s) - 1) : s[i] = "0" /\ s[i + 1] = "x"}
    IN  IF hits = {} THEN 0
        ELSE CHOOSE i \in hits : \A j \in hits : i <= j

\* s.split('0x'): the pieces of s between the occurrences of "0x", found
\* from the left and not overlapping.
RECURSIVE Split0x(_)
Split0x(s) ==
    LET i == Find0x(s)
    IN  IF i = 0 THEN <<s>>
        ELSE <<SubSeq(s, 1, i - 1)>> \o Split0x(SubSeq(s, i + 2, Len(s)))

\* a & b for non-negative integers.
RECURSIVE BitAnd(_, _)
BitAnd(a, b) ==
    IF a = 0 \/ b = 0 THEN 0
    ELSE (a % 2) * (b % 2) + 2 * BitAnd(a \div 2, b \div 2)

\* a << k
RECURSIVE ShiftLeft(_, _)
ShiftLeft(a, k) == IF k = 0 THEN a ELSE ShiftLeft(2 * a, k - 1)

----------------------------------------------------------------------------
(* The property descriptors of the driver.  An Instrument.control is given *)
(* its query first and its write template second, a setting its write      *)
(* template, a measurement its query.  get_process is the channel the      *)
(* reply is decoded for, 0 where the descriptor gives no get_process.      *)

ch1_status ==
    [get_command |-> <<"SYSTem:STATus?">>,
     set_command |-> <<"OUTPut CH1,", "%s">>,
     validator   |-> "strict_discrete_set",
     values      |-> CHANNEL_STATUS_VALUE_MAP,
     get_process |-> 1]

ch2_status ==
    [get_command |-> <<"SYSTem:STATus?">>,
     set_command |-> <<"OUTPut CH2,", "%s">>,
     validator   |-> "strict_discrete_set",
     values      |-> CHANNEL_STATUS_VALUE_MAP,
     get_process |-> 2]

\* Mutant: the descriptor declared without its validator.
ch3_status_unvalidated ==
    [get_command |-> <<>>,
     set_command |-> <<"OUTPut CH3,", "%s">>,
     validator   |-> "none",
     values      |-> <<>>,
     get_process |-> 0]

ch3_status ==
    [get_command |-> <<>>,
     set_command |-> <<"OUTPut CH3,", "%s">>,
     validator   |-> "strict_discrete_set",
     values      |-> CHANNEL_STATUS_VALUE_MAP,
     get_process |-> 0]

ch1_voltage ==
    [get_command |-> <<"CH1:VOLTage ", "%s">>,
     set_command |-> <<"CH1:VOLTage?">>,
     validator   |-> "strict_range",
     values      |-> CHANNEL_VOLTAGE_RANGE,
     get_process |-> 0]

ch2_voltage ==
    [get_command |-> <<"CH2:VOLTage ", "%s">>,
     set_command |-> <<"CH2:VOLTage?">>,
     validator   |-> "strict_range",
     values      |-> CHANNEL_VOLTAGE_RANGE,
     get_process |-> 0]

ch1_current ==
    [get_command |-> <<"CH1:CURRent ", "%s">>,
     set_command |-> <<"CH1:CURRent?">>,
     validator   |-> "strict_range",
     values      |-> CHANNEL_CURRENT_RANGE,
     get_process |-> 0]

ch2_current ==
    [get_command |-> <<"CH2:CURRent ", "%s">>,
     set_command |-> <<"CH2:CURRent?">>,
     validator   |-> "strict_range",
     values      |-> CHANNEL_CURRENT_RANGE,
     get_process |-> 0]

ch1_instant_voltage ==
    [get_command |-> <<"MEASure:VOLTage? CH1">>,
     set_command |-> <<>>,
     validator   |-> "none",
     values      |-> <<>>,
     get_process |-> 0]

ch2_instant_voltage ==
    [get_command |-> <<"MEASure:VOLTage? CH2">>,
     set_command |-> <<>>,
     validator   |-> "none",
     values      |-> <<>>,
     get_process |-> 0]

ch1_instant_current ==
    [get_command |-> <<"MEASure:CURRent? CH1">>,
     set_command |-> <<>>,
     validator   |-> "none",
     values      |-> <<>>,
     get_process |-> 0]

ch2_instant_current ==
    [get_command |-> <<"MEASure:CURRent? CH2">>,
     set_command |-> <<>>,
     validator   |-> "none",
     values      |-> <<>>,
     get_process |-> 0]

StatusProps == {"ch1_status", "ch2_status", "ch3_status"}

ReadableStatusProps == {"ch1_status", "ch2_status"}

VoltageProps == {"ch1_voltage", "ch2_voltage"}

CurrentProps == {"ch1_current", "ch2_current"}

SetpointProps == VoltageProps \cup CurrentProps

MeasurementProps ==
    {"ch1_instant_voltage", "ch2_instant_voltage",
     "ch1_instant_current", "ch2_instant_current"}

\* The class attribute of that name.
Descriptor(prop) ==
    CASE prop = "ch1_status"          -> ch1_status
      [] prop = "ch2_status"          -> ch2_status
      [] prop = "ch3_status"          -> ch3_status
      [] prop = "ch1_voltage"         -> ch1_voltage
      [] prop = "ch2_voltage"         -> ch2_voltage
      [] prop = "ch1_current"         -> ch1_current
      [] prop = "ch2_current"         -> ch2_current
      [] prop = "ch1_instant_voltage" -> ch1_instant_voltage
      [] prop = "ch2_instant_voltage" -> ch2_instant_voltage
      [] prop = "ch1_instant_current" -> ch1_instant_current
      [] prop = "ch2_instant_current" -> ch2_instant_current

----------------------------------------------------------------------------
(* Helper methods of the driver *)

\* Mutant: the mask shifted by the channel number alone.
ChannelMask_unshifted(channel) == ShiftLeft(1, channel)

\* mask = 1 << (channel + 3)
ChannelMask(channel) == ShiftLeft(1, channel + 3)

\* _decode_channel_status(status, channel).  status is a Python value,
\* [t |-> its type, n |-> its number]; & is defined between integers only.
decode_channel_status(status, channel) ==
    IF channel \notin CONTROLLABLE_CHANNELS
    THEN [err |-> "AssertionError", ret |-> ""]
    ELSE IF status.t # "int"
    THEN [err |-> "TypeError", ret |-> ""]
    ELSE [err |-> NoError,
          ret |-> IF BitAnd(status.n, ChannelMask(channel)) # 0
                  THEN "ON" ELSE "OFF"]

\* Mutant: everything after the first "0x" is converted.
StatusField_remainder(reply) ==
    LET i == Find0x(reply)
    IN  IF i = 0
        THEN [err |-> "IndexError", str |-> <<>>]
        ELSE [err |-> NoError, str |-> SubSeq(reply, i + 2, Len(reply))]

\* The part of the reply _get_system_status converts: split('0x')[1].
StatusField(reply) ==
    LET parts == Split0x(reply)
    IN  IF Len(parts) < 2
        THEN [err |-> "IndexError", str |-> <<>>]
        ELSE [err |-> NoError, str |-> parts[2]]

\* _get_system_status(), on the reply to its query.
get_system_status(reply) ==
    LET field == StatusField(reply)
    IN  IF field.err # NoError
        THEN [err |-> field.err, n |-> 0]
        ELSE PyInt16(field.str)

----------------------------------------------------------------------------
(* The Instrument base class, its validators and the transport *)

\* strict_discrete_set(value, values): the value, when it is a key of values
strict_discrete_set(value, values) ==
    IF PyKey(value) \in DOMAIN values THEN NoError ELSE "ValueError"

\* strict_range(value, values): the value, when it lies in the closed range
strict_range(value, values) ==
    IF values[1] <= value /\ value <= values[2] THEN NoError ELSE "ValueError"

Validate(d, value) ==
    CASE d.validator = "strict_discrete_set" ->
             strict_discrete_set(value, d.values)
      [] d.validator = "strict_range" -> strict_range(value, d.values)
      [] OTHER -> NoError

\* What is put into the write template: the token of a value map, the
\* printed number (in tenths) of a range.
WireValue(d, value) ==
    IF d.validator = "strict_discrete_set"
    THEN d.values[PyKey(value)]
    ELSE ToString(value)

\* The generic setter, up to the transport: validate, map, format.
\* [err, cmd]: the error raised, or the command to write.
SetCommand(d, value) ==
    LET verr == Validate(d, value)
    IN  IF verr # NoError
        THEN [err |-> verr, cmd |-> <<>>]
        ELSE LET f == PyFormat(d.set_command, WireValue(d, value))
             IN  [err |-> f.err, cmd |-> f.str]

\* The generic getter, from the reply on: parse the number, then the
\* descriptor's get_process.
GetValue(d, reply) ==
    LET parsed == PyFloat(reply)
    IN  IF parsed.err # NoError
        THEN [err |-> parsed.err, ret |-> "", n |-> 0]
        ELSE IF d.get_process = 0
        THEN [err |-> NoError, ret |-> "", n |-> parsed.n]
        ELSE LET dec == decode_channel_status(
                            [t |-> "float", n |-> parsed.n], d.get_process)
             IN  [err |-> dec.err, ret |-> dec.ret, n |-> 0]

OpenEvent == [kind |-> "open", cmd |-> <<>>]

CloseEvent == [kind |-> "close", cmd |-> <<>>]

WriteEvent(cmd) == [kind |-> "write", cmd |-> cmd]

AskEvent(cmd) == [kind |-> "ask", cmd |-> cmd]

\* The transport carries out the calls of a handler in order; the failAt-th
\* raises ConnectionError, which ends the handler (failAt = 0: none fails).
Carry(attempts, failAt) ==
    IF failAt \in 1..Len(attempts)
    THEN [sent |-> SubSeq(attempts, 1, failAt - 1), err |-> "ConnectionError"]
    ELSE [sent |-> attempts, err |-> NoError]

\* Which of the n transport calls of a handler fails, 0 for none.  A closed
\* session carries nothing: the first call on it fails.
FailChoices(n) == IF session = "open" THEN 0..n ELSE {1}

\* Assigning value to each property of props in turn: the writes made up to
\* the first assignment that raises, and what it raised.
RECURSIVE Assign(_, _)
Assign(props, value) ==
    IF props = <<>> THEN [events |-> <<>>, err |-> NoError]
    ELSE LET c == SetCommand(Descriptor(Head(props)), value)
         IN  IF c.err # NoError
             THEN [events |-> <<>>, err |-> c.err]
             ELSE LET rest == Assign(Tail(props), value)
                  IN  [events |-> <<WriteEvent(c.cmd)>> \o rest.events,
                       err    |-> rest.err]

\* The outcome of a handler that first makes the assignments pre, then the
\* transport calls after, when the failAt-th transport call fails.
Outcome(before, pre, after, failAt) ==
    LET attempts == before \o pre.events
                    \o (IF pre.err = NoError THEN after ELSE <<>>)
        out == Carry(attempts, failAt)
    IN  [sent |-> out.sent,
         err  |-> IF out.err # NoError THEN out.err ELSE pre.err]

----------------------------------------------------------------------------
(* Inputs *)

\* Values assigned to a status property.
StatusValues == {"True", "False", "1", "0", "2", "'ON'", "None"}

\* Values assigned to a voltage or current property, in tenths.
SetpointValues == {-1, 0, 5, 32, 33, 320, 321}

ReplyAlphabet == {"0", "1", "A", "x", " ", "-"}

\* Every reply string of at most n characters.
Replies(n) == UNION {[1..k -> ReplyAlphabet] : k \in 0..n}

\* The replies the instrument gives to the property accessors.
DeviceReplies ==
    {<<"0", "x", "1", "0">>, <<" ", "0", "x", "1", "A">>,
     <<"1", "0">>, <<"-", "1">>, <<"A">>, <<>>}

----------------------------------------------------------------------------
(* The driver *)

Idle ==
    [op |-> "none", prop |-> "", arg |-> "", num |-> 0, reply |-> <<>>,
     sent |-> <<>>, err |-> NoError, ret |-> "", n |-> 0]

Init ==
    /\ constructed = FALSE
    /\ session = "unbound"
    /\ wire = <<>>
    /\ last = Idle
    /\ calls = 0

\* Mutant: channel 3 is left as it was.
ConstructSteps_two_channels == <<"ch1_status", "ch2_status">>

\* The assignments of __init__, in program order.
ConstructSteps == <<"ch1_status", "ch2_status", "ch3_status">>

\* Mutant: the channels are switched off in another order.
ShutdownSteps_reordered == <<"ch3_status", "ch1_status", "ch2_status">>

\* The assignments of shutdown, in program order.
ShutdownSteps == <<"ch1_status", "ch2_status", "ch3_status">>

\* Mutant: the session is closed whatever the writes did (try/finally).
shutdown_finally(failAt) ==
    LET out == Outcome(<<>>, Assign(ShutdownSteps, "False"), <<>>, failAt)
    IN  [sent |-> out.sent \o <<CloseEvent>>, err |-> out.err]

\* shutdown(): what it sends and raises when the failAt-th transport call
\* fails.
shutdown(failAt) ==
    Outcome(<<>>, Assign(ShutdownSteps, "False"), <<CloseEvent>>, failAt)

\* SPD3303C(resourceName): the base class binds the session, then the three
\* channels are switched off.
Construct(failAt) ==
    /\ ~constructed
    /\ calls < MaxCalls
    /\ LET out == Outcome(<<OpenEvent>>, Assign(ConstructSteps, "False"),
                          <<>>, failAt)
       IN  /\ last' = [Idle EXCEPT !.op = "construct", !.arg = "False",
                                   !.sent = out.sent, !.err = out.err]
           /\ wire' = wire \o out.sent
           /\ session' = IF out.sent # <<>> THEN "open" ELSE session
           /\ constructed' = (out.err = NoError)
    /\ calls' = calls + 1

\* instrument.chN_status = value
SetStatus(prop, value, failAt) ==
    /\ constructed
    /\ calls < MaxCalls
    /\ LET out == Outcome(<<>>, Assign(<<prop>>, value), <<>>, failAt)
       IN  /\ last' = [Idle EXCEPT !.op = "set", !.prop = prop, !.arg = value,
                                   !.sent = out.sent, !.err = out.err]
           /\ wire' = wire \o out.sent
    /\ calls' = calls + 1
    /\ UNCHANGED <<constructed, session>>

\* instrument.chN_voltage = value, instrument.chN_current = value
SetSetpoint(prop, value, failAt) ==
    /\ constructed
    /\ calls < MaxCalls
    /\ LET out == Outcome(<<>>, Assign(<<prop>>, value), <<>>, failAt)
       IN  /\ last' = [Idle EXCEPT !.op = "set", !.prop = prop, !.num = value,
                                   !.sent = out.sent, !.err = out.err]
           /\ wire' = wire \o out.sent
    /\ calls' = calls + 1
    /\ UNCHANGED <<constructed, session>>

\* Reading a control or a measurement: one query, then the reply is
\* converted.
GetProperty(prop, reply, failAt) ==
    /\ constructed
    /\ calls < MaxCalls
    /\ LET d   == Descriptor(prop)
           out == Carry(<<AskEvent(d.get_command)>>, failAt)
           val == GetValue(d, reply)
       IN  /\ last' = IF out.err # NoError
                      THEN [Idle EXCEPT !.op = "get", !.prop = prop,
                                        !.sent = out.sent, !.err = out.err]
                      ELSE [Idle EXCEPT !.op = "get", !.prop = prop,
                                        !.reply = reply, !.sent = out.sent,
                                        !.err = val.err, !.ret = val.ret,
                                        !.n = val.n]
           /\ wire' = wire \o out.sent
    /\ calls' = calls + 1
    /\ UNCHANGED <<constructed, session>>

\* The query _get_system_status sends.
SystemStatusQuery == <<"SYSTem:STATus?">>

\* instrument._get_system_status()
GetSystemStatus(reply, failAt) ==
    /\ constructed
    /\ calls < MaxCalls
    /\ LET out == Carry(<<AskEvent(SystemStatusQuery)>>, failAt)
           val == get_system_status(reply)
       IN  /\ last' = IF out.err # NoError
                      THEN [Idle EXCEPT !.op = "get_system_status",
                                        !.sent = out.sent, !.err = out.err]
                      ELSE [Idle EXCEPT !.op = "get_system_status",
                                        !.reply = reply, !.sent = out.sent,
                                        !.err = val.err, !.n = val.n]
           /\ wire' = wire \o out.sent
    /\ calls' = calls + 1
    /\ UNCHANGED <<constructed, session>>

\* instrument.shutdown(): the three channels are switched off, then the base
\* class closes the session.
Shutdown(failAt) ==
    /\ constructed
    /\ calls < MaxCalls
    /\ LET out == shutdown(failAt)
       IN  /\ last' = [Idle EXCEPT !.op = "shutdown", !.arg = "False",
                                   !.sent = out.sent, !.err = out.err]
           /\ wire' = wire \o out.sent
           /\ session' = IF \E i \in 1..Len(out.sent) : out.sent[i] = CloseEvent
                         THEN "closed" ELSE session
    /\ calls' = calls + 1
    /\ UNCHANGED constructed

\* __init__ makes four transport calls (the open and three writes), shutdown
\* four (three writes and the close), every accessor one.
Next ==
    \/ \E f \in 0..4 : Construct(f)
    \/ \E p \in StatusProps, v \in StatusValues, f \in FailChoices(1) :
           SetStatus(p, v, f)
    \/ \E p \in SetpointProps, v \in SetpointValues, f \in FailChoices(1) :
           SetSetpoint(p, v, f)
    \/ \E p \in ReadableStatusProps \cup SetpointProps \cup MeasurementProps,
          r \in DeviceReplies, f \in FailChoices(1) :
           GetProperty(p, r, f)
    \/ \E r \in DeviceReplies, f \in FailChoices(1) : GetSystemStatus(r, f)
    \/ \E f \in FailChoices(4) : Shutdown(f)

Spec == Init /\ [][Next]_vars

----------------------------------------------------------------------------
(* The helper methods on their own: every reply, every status word *)

InitHelpers ==
    /\ constructed = TRUE
    /\ session = "open"
    /\ wire = <<>>
    /\ last = Idle
    /\ calls = 0

\* One call of _get_system_status, the transport delivering the reply.
CallGetSystemStatus(reply) ==
    /\ calls = 0
    /\ LET val == get_system_status(reply)
       IN  last' = [Idle EXCEPT !.op = "get_system_status", !.reply = reply,
                                !.sent = <<AskEvent(SystemStatusQuery)>>,
                                !.err = val.err, !.n = val.n]
    /\ wire' = wire \o <<AskEvent(SystemStatusQuery)>>
    /\ calls' = 1
    /\ UNCHANGED <<constructed, session>>

\* One call of _decode_channel_status on an integer status word.
CallDecodeChannelStatus(status, channel) ==
    /\ calls = 0
    /\ LET val == decode_channel_status([t |-> "int", n |-> status], channel)
       IN  last' = [Idle EXCEPT !.op = "decode_channel_status",
                                !.num = status, !.n = channel,
                                !.err = val.err, !.ret = val.ret]
    /\ calls' = 1
    /\ UNCHANGED <<constructed, session, wire>>

NextHelpers ==
    \/ calls = 0 /\ \E r \in Replies(MaxReplyLen) : CallGetSystemStatus(r)
    \/ calls = 0 /\ \E w \in 0..MaxStatusWord, c \in ALL_CHANNELS :
                        CallDecodeChannelStatus(w, c)

SpecHelpers == InitHelpers /\ [][NextHelpers]_vars

----------------------------------------------------------------------------
(* Properties *)

IsPrefix(a, b) == Len(a) <= Len(b) /\ a = SubSeq(b, 1, Len(a))

\* The wire ends with what the last call sent.
WireEndsWith(sent) ==
    /\ Len(sent) <= Len(wire)
    /\ SubSeq(wire, Len(wire) - Len(sent) + 1, Len(wire)) = sent

Off(n) ==
    [kind |-> "write",
     cmd  |-> <<CASE n = 1 -> "OUTPut CH1,"
                  [] n = 2 -> "OUTPut CH2,"
                  [] n = 3 -> "OUTPut CH3,", "OFF">>]

\* The error names of the specification, as the exceptions the code raises.
RangeError == "ValueError"

ProtocolError == {"IndexError", "ValueError"}

\* C1: a shutdown() that returns has sent exactly OFF for CH1, OFF for CH2,
\* OFF for CH3 and then one close of the session, in that order; a
\* shutdown() that raises has sent a beginning of that sequence and nothing
\* else, so the close never precedes a write and no other command is sent.
C1_ShutdownSequence ==
    last.op = "shutdown" =>
        /\ IsPrefix(last.sent, <<Off(1), Off(2), Off(3), CloseEvent>>)
        /\ WireEndsWith(last.sent)
        /\ last.err = NoError =>
               /\ last.sent = <<Off(1), Off(2), Off(3), CloseEvent>>
               /\ session = "closed"

C1_Witness ==
    /\ last.op = "shutdown"
    /\ last.err = NoError
    /\ last.sent = <<Off(1), Off(2), Off(3), CloseEvent>>
    /\ session = "closed"

\* C2: a constructor that returns (the session opened, no write failed) has
\* bound the session and then sent exactly three writes, OFF for CH1, OFF
\* for CH2 and OFF for CH3 in that order, and nothing else.
C2_ConstructSequence ==
    /\ last.op = "construct" /\ last.err = NoError =>
           /\ last.sent = <<OpenEvent, Off(1), Off(2), Off(3)>>
           /\ WireEndsWith(last.sent)
           /\ session = "open"
    /\ last.op = "construct" =>
           /\ IsPrefix(last.sent, <<OpenEvent, Off(1), Off(2), Off(3)>>)
           /\ constructed = (last.err = NoError)

C2_Witness ==
    /\ last.op = "construct"
    /\ constructed
    /\ calls = 1
    /\ wire = <<OpenEvent, Off(1), Off(2), Off(3)>>

StatusPrefix(prop) ==
    CASE prop = "ch1_status" -> "OUTPut CH1,"
      [] prop = "ch2_status" -> "OUTPut CH2,"
      [] prop = "ch3_status" -> "OUTPut CH3,"

StatusPrefixes == {StatusPrefix(p) : p \in StatusProps}

\* C3: every status command the transport has carried, after any sequence
\* of calls, is OUTPut CH{n}, followed by exactly ON or OFF; a status
\* assignment that is carried out writes one such command for its own
\* channel, ON for true and OFF for false.
C3_StatusTokens ==
    /\ \A i \in 1..Len(wire) :
           (wire[i].kind = "write" /\ wire[i].cmd # <<>>
              /\ wire[i].cmd[1] \in StatusPrefixes) =>
               /\ Len(wire[i].cmd) = 2
               /\ wire[i].cmd[2] \in {"ON", "OFF"}
    /\ (last.op = "set" /\ last.prop \in StatusProps /\ last.err = NoError) =>
           /\ Len(last.sent) = 1
           /\ last.sent[1].kind = "write"
           /\ Len(last.sent[1].cmd) = 2
           /\ last.sent[1].cmd[1] = StatusPrefix(last.prop)
           /\ last.sent[1].cmd[2] \in {"ON", "OFF"}
           /\ last.arg = "True" => last.sent[1].cmd[2] = "ON"
           /\ last.arg = "False" => last.sent[1].cmd[2] = "OFF"
    /\ (last.op \in {"construct", "shutdown"}) =>
           \A i \in 1..Len(last.sent) :
               last.sent[i].kind = "write" =>
                   last.sent[i] \in {Off(1), Off(2), Off(3)}

C3_Witness ==
    /\ last.op = "set"
    /\ last.prop = "ch2_status"
    /\ last.arg = "True"
    /\ last.sent = <<[kind |-> "write", cmd |-> <<"OUTPut CH2,", "ON">>]>>
    /\ Len(wire) = 5

SetpointWrite(prop) ==
    CASE prop = "ch1_voltage" -> "CH1:VOLTage "
      [] prop = "ch2_voltage" -> "CH2:VOLTage "
      [] prop = "ch1_current" -> "CH1:CURRent "
      [] prop = "ch2_current" -> "CH2:CURRent "

SetpointQuery(prop) ==
    CASE prop = "ch1_voltage" -> "CH1:VOLTage?"
      [] prop = "ch2_voltage" -> "CH2:VOLTage?"
      [] prop = "ch1_current" -> "CH1:CURRent?"
      [] prop = "ch2_current" -> "CH2:CURRent?"

InRange(prop, v) ==
    IF prop \in VoltageProps THEN 0 <= v /\ v <= 320 ELSE 0 <= v /\ v <= 32

\* C4: on a working transport, assigning an in-range value v to
\* ch{n}_voltage (ch{n}_current) sends exactly one write, CH{n}:VOLTage <v>
\* (CH{n}:CURRent <v>), and reading it sends exactly one query,
\* CH{n}:VOLTage? (CH{n}:CURRent?), and returns the parsed reply.
C4_SetpointCommands ==
    /\ (last.op = "set" /\ last.prop \in SetpointProps
          /\ InRange(last.prop, last.num)
          /\ last.err # "ConnectionError") =>
           /\ last.err = NoError
           /\ last.sent = <<[kind |-> "write",
                             cmd  |-> <<SetpointWrite(last.prop),
                                        ToString(last.num)>>]>>
    /\ (last.op = "get" /\ last.prop \in SetpointProps
          /\ last.err # "ConnectionError") =>
           /\ last.sent = <<[kind |-> "ask",
                             cmd  |-> <<SetpointQuery(last.prop)>>]>>
           /\ PyFloat(last.reply).err = NoError =>
                  last.err = NoError /\ last.n = PyFloat(last.reply).n

\* Bit k of a non-negative integer.
BitSet(w, k) == (w \div (2 ^ k)) % 2 = 1

\* C5: on a working transport, reading ch{n}_status (n = 1, 2) sends one
\* SYSTem:STATus? query and, on a reply <prefix>0x<hex>, returns true
\* exactly when bit n+3 of the status word is set.
C5_StatusRead ==
    (last.op = "get" /\ last.prop \in ReadableStatusProps
       /\ last.err # "ConnectionError") =>
        /\ last.sent = <<[kind |-> "ask", cmd |-> <<"SYSTem:STATus?">>]>>
        /\ LET word == get_system_status(last.reply)
               n    == IF last.prop = "ch1_status" THEN 1 ELSE 2
           IN  (word.err = NoError /\ word.n >= 0) =>
                   /\ last.err = NoError
                   /\ (last.ret \in {"True", "ON"}) = BitSet(word.n, n + 3)

Rejected(call) ==
    \/ call.prop \in VoltageProps /\ (call.num < 0 \/ call.num > 320)
    \/ call.prop \in CurrentProps /\ (call.num < 0 \/ call.num > 32)
    \/ call.prop \in StatusProps
         /\ call.arg \notin {"True", "False", "1", "0"}

\* C6: an assignment whose value fails validation (a voltage or current
\* outside its closed range, a status that is not boolean-like) leaves the
\* sequence of calls seen by the transport unchanged.
C6_RejectedSendsNothing ==
    [][(last'.op = "set" /\ Rejected(last')) =>
           (wire' = wire /\ last'.sent = <<>> /\ last'.err = "ValueError")]_vars

C6_Witness ==
    /\ last.op = "set"
    /\ last.prop = "ch3_status"
    /\ last.arg = "'ON'"
    /\ last.err = "ValueError"
    /\ wire = <<OpenEvent, Off(1), Off(2), Off(3)>>

\* C7: assigning v to ch{n}_voltage raises RangeError exactly when v < 0.0
\* or v > 32.0, and to ch{n}_current exactly when v < 0.0 or v > 3.2; the
\* boundary values raise no RangeError.
C7_RangeErrorIff ==
    (last.op = "set" /\ last.prop \in SetpointProps) =>
        /\ last.prop \in VoltageProps =>
               ((last.err = RangeError) = (last.num < 0 \/ last.num > 320))
        /\ last.prop \in CurrentProps =>
               ((last.err = RangeError) = (last.num < 0 \/ last.num > 32))

C7_Witness ==
    /\ last.op = "set"
    /\ last.prop = "ch1_current"
    /\ last.num = 32
    /\ last.err # RangeError

\* What follows the first "0x" of the reply, to the end of the reply.
AfterFirst0x(reply) == SubSeq(reply, Find0x(reply) + 2, Len(reply))

\* What lies between the first "0x" of the reply and the next one, or the
\* end of the reply when there is no other.
UpToNext0x(reply) ==
    LET rest == AfterFirst0x(reply)
        j    == Find0x(rest)
    IN  IF j = 0 THEN rest ELSE SubSeq(rest, 1, j - 1)

\* C8, as stated: _get_system_status sends SYSTem:STATus? and returns the
\* base-16 value of the whole of the reply after its first "0x", and fails
\* with ProtocolError when there is no "0x" or that text is no hexadecimal
\* number.
C8_WholeRemainder ==
    last.op = "get_system_status" =>
        /\ last.sent = <<[kind |-> "ask", cmd |-> <<"SYSTem:STATus?">>]>>
        /\ IF Find0x(last.reply) = 0
           THEN last.err \in ProtocolError
           ELSE LET want == PyInt16(AfterFirst0x(last.reply))
                IN  IF want.err = NoError
                    THEN last.err = NoError /\ last.n = want.n
                    ELSE last.err \in ProtocolError

\* C8, amended: _get_system_status sends SYSTem:STATus? and returns the
\* base-16 value of the text between the first "0x" of the reply and the
\* next "0x" (or the end of the reply), and fails when there is no "0x" or
\* that text is no hexadecimal number.
C8_UpToNext0x ==
    last.op = "get_system_status" =>
        /\ last.sent = <<[kind |-> "ask", cmd |-> <<"SYSTem:STATus?">>]>>
        /\ IF Find0x(last.reply) = 0
           THEN last.err = "IndexError"
           ELSE LET want == PyInt16(UpToNext0x(last.reply))
                IN  IF want.err = NoError
                    THEN last.err = NoError /\ last.n = want.n
                    ELSE last.err = "ValueError"
        /\ last.reply = <<" ", "0", "x", "1", "A">> =>
               last.err = NoError /\ last.n = 26

C8_Witness ==
    /\ last.op = "get_system_status"
    /\ last.reply = <<"0", "x", "A", "0", "x">>
    /\ last.err = NoError
    /\ last.n = 10

\* C9: for channel 1 or 2 and a non-negative status word,
\* _decode_channel_status returns ON when bit channel+3 of the word is set
\* and OFF otherwise: channel 1 gives ON for 0x30 and OFF for 0x20.
C9_DecodeBit ==
    (last.op = "decode_channel_status" /\ last.n \in {1, 2}) =>
        /\ last.err = NoError
        /\ last.ret = IF BitSet(last.num, last.n + 3) THEN "ON" ELSE "OFF"
        /\ (last.n = 1 /\ last.num = 48) => last.ret = "ON"
        /\ (last.n = 1 /\ last.num = 32) => last.ret = "OFF"

C9_Witness ==
    /\ last.op = "decode_channel_status"
    /\ last.n = 2
    /\ last.num = 32
    /\ last.ret = "ON"

\* C10: when the transport fails on one of the three OFF writes of
\* shutdown() (as it does on a closed session), the call raises that
\* failure at once: the writes before it are all it has sent, no later
\* channel is written, the session is not closed by the call and keeps the
\* state it had.
C10_ShutdownWriteFailure ==
    [][(last'.op = "shutdown" /\ last'.err = "ConnectionError"
          /\ Len(last'.sent) < 3) =>
           /\ IsPrefix(last'.sent, <<Off(1), Off(2), Off(3)>>)
           /\ wire' = wire \o last'.sent
           /\ session' = session]_vars

C10_Witness ==
    /\ last.op = "shutdown"
    /\ last.err = "ConnectionError"
    /\ last.sent = <<>>
    /\ session = "closed"
    /\ Len(wire) = 8

====
